---- MODULE Spec2Model ----
(***************************************************************************)
(* A model of the chained hash table of hash.c: a bucket array of singly   *)
(* linked chains of associations, the DJB hash, insert/update/remove       *)
(* through hash_insert, lookup through hash_get and growth by              *)
(* _hash_resize.                                                           *)
(*                                                                         *)
(* A chain is a sequence of nodes, head first: the node after a node in    *)
(* the sequence is the one its next field points to.  A key is a pointer   *)
(* (hash_insert stores the caller's pointer, hash.c:180); the text behind  *)
(* a pointer is read through Str.                                          *)
(***************************************************************************)
EXTENDS Integers, Sequences, FiniteSets, TLC

\* ------------------------------------------------------------------------
\* Program constants
\* ------------------------------------------------------------------------
INITIAL_CAPACITY == 16

LOAD_FACTOR_THR == 5

NULL == 0

\* ------------------------------------------------------------------------
\* Bounds of the explored caller
\* ------------------------------------------------------------------------
\* The caller bulk-loads the keys "00", "01", ... : at most MaxBulk of them.
MaxBulk == 82

\* The caller inserts, removes and looks up its other keys while it has
\* loaded no bulk key and again once it has loaded ProbeFrom of them; in
\* between it only loads.
ProbeFrom == 72

\* The caller's values are the non-NULL pointers 1..MaxValue.
MaxValue == 2

Values == 1..MaxValue

\* ------------------------------------------------------------------------
\* The caller's key memory
\* ------------------------------------------------------------------------
\* A key pointer is the segment it points into and, for a string literal,
\* the literal's bytes.
Lit(text) == [seg |-> "literal", text |-> text]

\* Pointer to the caller's one writable key buffer.
Scratch == [seg |-> "buffer", text |-> <<>>]

\* Pointers to the string literals "a" and "q".
LitA == Lit(<<97>>)

LitQ == Lit(<<113>>)

\* Pointer to the n-th bulk key literal: "00", "01", ...
BulkPtr(n) == Lit(<<48 + (n \div 10), 48 + (n % 10)>>)

\* The keys the caller inserts and removes besides the bulk keys, and the
\* keys it looks up.
InsertPtrs == {Scratch, LitA, LitQ}

LookupPtrs == {Scratch, LitA, LitQ}

\* The texts the caller writes into its writable buffer: "a", "q", "b".
ProbeTexts == {<<97>>, <<113>>, <<98>>}

VARIABLES
  hash,    \* struct hash: [table, capacity, num_elems]
  stack,   \* the _hash_resize activations in progress, outermost first
  mem,     \* the text in the caller's writable key buffer
  loaded,  \* how many bulk keys the caller has inserted
  call,    \* the call in progress or just returned, NoCall between calls
  entry,   \* hash as it was when that call was made
  heap,    \* the allocations, by address (memory-level model only)
  run,     \* where the memory-level program is (memory-level model only)
  fault    \* how the memory-level program ended abnormally, "none" if not

vars == <<hash, stack, mem, loaded, call, entry, heap, run, fault>>

\* The variables of the memory-level model.  The specifications Spec,
\* SpecAlias and SpecLoad describe the table by its contents and leave
\* them alone; SpecHeap describes it by its allocations.
mvars == <<heap, run, fault>>

\* The memory-level program before hash_create.
NotStarted ==
  [pc |-> "start", h |-> NULL, frames |-> <<>>, i |-> 0, cur |-> NULL,
   old_nodes |-> {}, old_table |-> NULL]

\* The text a key pointer refers to, given the writable buffer's content.
Str(m, p) == IF p.seg = "buffer" THEN m ELSE p.text

\* ------------------------------------------------------------------------
\* _djb_hash: the 32-bit result as two 16-bit halves [hi, lo].  The code
\* accumulates in an unsigned long and returns unsigned int; truncating the
\* sum to 32 bits at the end equals truncating after each step.
\* ------------------------------------------------------------------------
Half == 65536

DjbStep(hv, c) ==
  LET lo33 == hv.lo * 33 + c
  IN  [hi |-> (hv.hi * 33 + (lo33 \div Half)) % Half, lo |-> lo33 % Half]

RECURSIVE DjbFrom(_, _, _)
DjbFrom(hv, text, n) ==
  IF n > Len(text) THEN hv ELSE DjbFrom(DjbStep(hv, text[n]), text, n + 1)

\* 5381 = 0 * 65536 + 5381
_djb_hash(text) == DjbFrom([hi |-> 0, lo |-> 5381], text, 1)

\* hashval % hash->capacity
BucketOf(hv, capacity) ==
  (((hv.hi % capacity) * (Half % capacity)) + (hv.lo % capacity)) % capacity

Idx(h, m, key) == BucketOf(_djb_hash(Str(m, key)), h.capacity)

\* ------------------------------------------------------------------------
\* Table lifecycle
\* ------------------------------------------------------------------------
_hash_table_init(capacity) ==
  [table |-> [i \in 0..(capacity - 1) |-> <<>>],
   capacity |-> capacity,
   num_elems |-> 0]

hash_create == _hash_table_init(INITIAL_CAPACITY)

\* Mutant: the cast to float forgotten, the quotient is the integer one.
OverThresholdIntDiv(h) == (h.num_elems \div h.capacity) > LOAD_FACTOR_THR

\* (float)n for an unsigned n: float has a 24-bit significand, so a count
\* of 2^24 or more is rounded to the nearest multiple of its unit in the
\* last place, ties to the even significand.
FloatSignificand == 16777216

RECURSIVE UlpFrom(_, _)
UlpFrom(n, u) == IF n \div u < FloatSignificand THEN u ELSE UlpFrom(n, 2 * u)

Float(n) ==
  LET u == UlpFrom(n, 1)
      q == n \div u
      r == n % u
  IN  IF 2 * r > u \/ (2 * r = u /\ q % 2 = 1) THEN (q + 1) * u ELSE q * u

\* Mutant: the load factor is compared with >=.
OverThresholdAtLeast(h) == Float(h.num_elems) >= LOAD_FACTOR_THR * h.capacity

\* hash_load_factor(hash) > LOAD_FACTOR_THR.  num_elems is converted to
\* float; the division by (float)capacity is exact, capacity being a power
\* of two, so the quotient exceeds 5 when the converted count exceeds
\* 5 * capacity.
OverThreshold(h) == Float(h.num_elems) > LOAD_FACTOR_THR * h.capacity

\* ------------------------------------------------------------------------
\* Chain search: position of the first node whose key text equals the
\* text of `key`, 0 when there is none (cur == NULL).
\* ------------------------------------------------------------------------
KeyEq(m, p, q) == Str(m, p) = Str(m, q)

\* Mutant: the chain search looks at the head of the chain only.
FindHeadOnly(chain, m, key) ==
  IF chain # <<>> /\ KeyEq(m, key, chain[1].key) THEN 1 ELSE 0

RECURSIVE FindFrom(_, _, _, _)
FindFrom(chain, m, key, n) ==
  IF n > Len(chain) THEN 0
  ELSE IF KeyEq(m, key, chain[n].key) THEN n
  ELSE FindFrom(chain, m, key, n + 1)

Find(chain, m, key) == FindFrom(chain, m, key, 1)

\* Mutant: the removal relinks the bucket head whatever prev is.
UnlinkHead(chain, n) == Tail(chain)

\* The chain without its n-th node.
Unlink(chain, n) ==
  [j \in 1..(Len(chain) - 1) |-> IF j < n THEN chain[j] ELSE chain[j + 1]]

\* A new association at the head of the chain.
Push(chain, key, value) == <<[key |-> key, value |-> value]>> \o chain

\* Mutants of the chain operation, one bug each:
\*   "no-update":    an existing key keeps its old value;
\*   "count-update": num_elems++ also when an existing key is updated;
\*   "no-decrement": num_elems-- forgotten on removal;
\*   "dec-on-miss":  num_elems-- also when the key to remove is not found.
ChainOpBug(bug, h, m, key, value) ==
  LET idx == BucketOf(_djb_hash(Str(m, key)), h.capacity)
      chain == h.table[idx]
      cur == FindFrom(chain, m, key, 1)
  IN  IF cur # 0
      THEN IF value # NULL
           THEN [h EXCEPT !.table[idx][cur].value =
                            IF bug = "no-update" THEN @ ELSE value,
                          !.num_elems =
                            IF bug = "count-update" THEN @ + 1 ELSE @]
           ELSE [h EXCEPT !.table[idx] =
                            [j \in 1..(Len(chain) - 1) |->
                               IF j < cur THEN chain[j] ELSE chain[j + 1]],
                          !.num_elems =
                            IF bug = "no-decrement" THEN @ ELSE @ - 1]
      ELSE IF value # NULL
           THEN [h EXCEPT !.table[idx] =
                            <<[key |-> key, value |-> value]>> \o chain,
                          !.num_elems = @ + 1]
           ELSE [h EXCEPT !.num_elems =
                            IF bug = "dec-on-miss" THEN @ - 1 ELSE @]

ChainOpNoUpdate(h, m, key, value) == ChainOpBug("no-update", h, m, key, value)

ChainOpCountUpdate(h, m, key, value) == ChainOpBug("count-update", h, m, key, value)

ChainOpNoDecrement(h, m, key, value) == ChainOpBug("no-decrement", h, m, key, value)

ChainOpDecOnMiss(h, m, key, value) == ChainOpBug("dec-on-miss", h, m, key, value)

\* Mutant: a removal stores NULL in the node instead of unlinking it.
ChainOpStoreNull(h, m, key, value) ==
  LET idx == BucketOf(_djb_hash(Str(m, key)), h.capacity)
      cur == FindFrom(h.table[idx], m, key, 1)
  IN  IF cur # 0 /\ value = NULL
      THEN [h EXCEPT !.table[idx][cur].value = NULL]
      ELSE ChainOpBug("none", h, m, key, value)

\* hash_insert after its load-factor check: update, remove, add or nothing.
ChainOp(h, m, key, value) ==
  LET idx == Idx(h, m, key)
      chain == h.table[idx]
      cur == Find(chain, m, key)
  IN  IF cur # 0
      THEN IF value # NULL
           THEN [h EXCEPT !.table[idx][cur].value = value]
           ELSE [h EXCEPT !.table[idx] = Unlink(chain, cur),
                          !.num_elems = h.num_elems - 1]
      ELSE IF value # NULL
           THEN [h EXCEPT !.table[idx] = Push(chain, key, value),
                          !.num_elems = h.num_elems + 1]
           ELSE h

hash_get(h, m, key) ==
  LET chain == h.table[Idx(h, m, key)]
      cur == Find(chain, m, key)
  IN  IF cur # 0 THEN chain[cur].value ELSE NULL

\* ------------------------------------------------------------------------
\* _hash_resize, one activation per frame:
\*   old_table, old_capacity: the array being rehashed, without the nodes
\*                            already freed;
\*   i:                       the loop index;
\*   key, value:              the arguments of the hash_insert that called it.
\* ------------------------------------------------------------------------
\* Mutant: the loop over the old table stops one bucket early.
ResizeFrameShort(h, key, value) ==
  [old_table |-> h.table, old_capacity |-> h.capacity - 1, i |-> 0,
   key |-> key, value |-> value]

\* The activation at its start: old_table = hash->table, old_capacity =
\* hash->capacity, the loop at bucket 0.
ResizeFrame(h, key, value) ==
  [old_table |-> h.table, old_capacity |-> h.capacity, i |-> 0,
   key |-> key, value |-> value]

\* The buckets the loop has still to visit that hold a node.
Pending(f) == {j \in f.i..(f.old_capacity - 1) : f.old_table[j] # <<>>}

NextBucket(f) == CHOOSE j \in Pending(f) : \A k \in Pending(f) : j <= k

\* cur = cur->next; free(tmp)
Advance(f) == [f EXCEPT !.old_table[f.i] = Tail(@)]

\* The innermost activation of _hash_resize.
Top == stack[Len(stack)]

\* cur != NULL at hash.c:144: the chain search of hash_insert found the key.
Found(h, m, key) == Find(h.table[Idx(h, m, key)], m, key) # 0

\* A call record: the function, its key and value arguments (for hash_get,
\* value is what it returned), whether the chain search found the key and
\* whether the call ran _hash_resize.
Call(op, key, value, hit, resized) ==
  [op |-> op, key |-> key, value |-> value, hit |-> hit, resized |-> resized]

NoCall == Call("none", Scratch, NULL, FALSE, FALSE)

\* The caller is between two calls.
Between == call = NoCall

\* No _hash_resize is in progress.
Idle == stack = <<>>

\* ------------------------------------------------------------------------
\* Actions
\* ------------------------------------------------------------------------
\* The caller is where it uses its other keys.
Probing == loaded = 0 \/ loaded >= ProbeFrom

\* hash_create has returned a new table.
Init ==
  /\ hash = hash_create
  /\ stack = <<>>
  /\ mem = <<97>>
  /\ loaded = 0
  /\ call = Call("create", Scratch, NULL, FALSE, FALSE)
  /\ entry = hash_create
  /\ heap = <<>>
  /\ run = NotStarted
  /\ fault = "none"

\* Mutant: hash_insert makes its load-factor check only for a real value.
InsertCallGrowOnRealValue(key, value) ==
  /\ Between
  /\ entry' = hash
  /\ IF OverThreshold(hash) /\ value # NULL
     THEN /\ stack' = <<ResizeFrame(hash, key, value)>>
          /\ hash' = _hash_table_init(hash.capacity * 2)
          /\ call' = Call("insert", key, value, FALSE, TRUE)
     ELSE /\ stack' = stack
          /\ hash' = ChainOp(hash, mem, key, value)
          /\ call' = Call("insert", key, value, Found(hash, mem, key), FALSE)
  /\ UNCHANGED mem
  /\ UNCHANGED mvars

\* Mutant: _hash_resize leaves num_elems as it was.
InsertCallKeepCount(key, value) ==
  /\ Between
  /\ entry' = hash
  /\ IF OverThreshold(hash)
     THEN /\ stack' = <<ResizeFrame(hash, key, value)>>
          /\ hash' = [_hash_table_init(hash.capacity * 2)
                        EXCEPT !.num_elems = hash.num_elems]
          /\ call' = Call("insert", key, value, FALSE, TRUE)
     ELSE /\ stack' = stack
          /\ hash' = ChainOp(hash, mem, key, value)
          /\ call' = Call("insert", key, value, Found(hash, mem, key), FALSE)
  /\ UNCHANGED mem
  /\ UNCHANGED mvars

\* Mutant: _hash_resize asks for three times the old capacity.
InsertCallTriple(key, value) ==
  /\ Between
  /\ entry' = hash
  /\ IF OverThreshold(hash)
     THEN /\ stack' = <<ResizeFrame(hash, key, value)>>
          /\ hash' = _hash_table_init(hash.capacity * 3)
          /\ call' = Call("insert", key, value, FALSE, TRUE)
     ELSE /\ stack' = stack
          /\ hash' = ChainOp(hash, mem, key, value)
          /\ call' = Call("insert", key, value, Found(hash, mem, key), FALSE)
  /\ UNCHANGED mem
  /\ UNCHANGED mvars

\* The caller calls hash_insert(hash, key, value): the load-factor check,
\* then either the whole chain operation or the entry into _hash_resize.
InsertCall(key, value) ==
  /\ Between
  /\ entry' = hash
  /\ IF OverThreshold(hash)
     THEN /\ stack' = <<ResizeFrame(hash, key, value)>>
          /\ hash' = _hash_table_init(hash.capacity * 2)
          /\ call' = Call("insert", key, value, FALSE, TRUE)
     ELSE /\ stack' = stack
          /\ hash' = ChainOp(hash, mem, key, value)
          /\ call' = Call("insert", key, value, Found(hash, mem, key), FALSE)
  /\ UNCHANGED mem
  /\ UNCHANGED mvars

\* The caller inserts, updates or removes one of its other keys.
Insert ==
  /\ Probing
  /\ \E key \in InsertPtrs, value \in Values \cup {NULL} : InsertCall(key, value)
  /\ UNCHANGED loaded

\* The caller inserts its next bulk key.
BulkInsert ==
  /\ loaded < MaxBulk
  /\ InsertCall(BulkPtr(loaded), 1)
  /\ loaded' = loaded + 1

\* One turn of the inner loop of _hash_resize: hash_insert of the next old
\* node (which runs its own load-factor check), then cur = cur->next and
\* free(tmp).
RehashStep ==
  /\ ~Idle
  /\ Pending(Top) # {}
  /\ LET f == [Top EXCEPT !.i = NextBucket(Top)]
         node == Head(f.old_table[f.i])
         below == SubSeq(stack, 1, Len(stack) - 1)
     IN  IF OverThreshold(hash)
         THEN /\ stack' = below \o <<f, ResizeFrame(hash, node.key, node.value)>>
              /\ hash' = _hash_table_init(hash.capacity * 2)
         ELSE /\ stack' = below \o <<Advance(f)>>
              /\ hash' = ChainOp(hash, mem, node.key, node.value)
  /\ UNCHANGED <<mem, loaded, call, entry>>
  /\ UNCHANGED mvars

\* Mutant: the hash_insert that resized uses the bucket index of its key
\* under the old capacity.
RehashDoneStaleIdx ==
  /\ ~Idle
  /\ Pending(Top) = {}
  /\ LET idx == BucketOf(_djb_hash(Str(mem, Top.key)), Top.old_capacity)
         chain == hash.table[idx]
         cur == Find(chain, mem, Top.key)
     IN  hash' = IF cur # 0
                 THEN IF Top.value # NULL
                      THEN [hash EXCEPT !.table[idx][cur].value = Top.value]
                      ELSE [hash EXCEPT !.table[idx] = Unlink(chain, cur),
                                        !.num_elems = hash.num_elems - 1]
                 ELSE IF Top.value # NULL
                      THEN [hash EXCEPT !.table[idx] = Push(chain, Top.key, Top.value),
                                        !.num_elems = hash.num_elems + 1]
                      ELSE hash
  /\ IF Len(stack) = 1
     THEN /\ stack' = <<>>
          /\ call' = [call EXCEPT !.hit = Found(hash, mem, Top.key)]
     ELSE /\ stack' = SubSeq(stack, 1, Len(stack) - 2)
                        \o <<Advance(stack[Len(stack) - 1])>>
          /\ call' = call
  /\ UNCHANGED <<mem, loaded, entry>>
  /\ UNCHANGED mvars

\* The loop of _hash_resize is over: free(old_table), return into the
\* hash_insert that called it, which does its chain operation and returns.
RehashDone ==
  /\ ~Idle
  /\ Pending(Top) = {}
  /\ hash' = ChainOp(hash, mem, Top.key, Top.value)
  /\ IF Len(stack) = 1
     THEN /\ stack' = <<>>
          /\ call' = [call EXCEPT !.hit = Found(hash, mem, Top.key)]
     ELSE /\ stack' = SubSeq(stack, 1, Len(stack) - 2)
                        \o <<Advance(stack[Len(stack) - 1])>>
          /\ call' = call
  /\ UNCHANGED <<mem, loaded, entry>>
  /\ UNCHANGED mvars

\* Mutant: hash_get moves the node it finds to the head of its chain.
GetMoveToFront ==
  /\ Between
  /\ Probing
  /\ \E key \in LookupPtrs :
       LET idx == Idx(hash, mem, key)
           chain == hash.table[idx]
           cur == Find(chain, mem, key)
       IN  /\ call' = Call("get", key, hash_get(hash, mem, key), cur # 0, FALSE)
           /\ hash' = IF cur = 0 THEN hash
                      ELSE [hash EXCEPT !.table[idx] = <<chain[cur]>> \o Unlink(chain, cur)]
  /\ entry' = hash
  /\ UNCHANGED <<stack, mem, loaded>>
  /\ UNCHANGED mvars

\* The caller calls hash_get(hash, key).
Get ==
  /\ Between
  /\ Probing
  /\ \E key \in LookupPtrs :
       call' = Call("get", key, hash_get(hash, mem, key), Found(hash, mem, key), FALSE)
  /\ entry' = hash
  /\ UNCHANGED <<hash, stack, mem, loaded>>
  /\ UNCHANGED mvars

\* The call has returned and the caller goes on.
Return ==
  /\ Idle
  /\ ~Between
  /\ call' = NoCall
  /\ entry' = hash
  /\ UNCHANGED <<hash, stack, mem, loaded>>
  /\ UNCHANGED mvars

\* The caller writes another key text into its writable buffer.
Overwrite ==
  /\ Between
  /\ \E text \in ProbeTexts \ {mem} : mem' = text
  /\ UNCHANGED <<hash, stack, loaded, call, entry>>
  /\ UNCHANGED mvars

\* A caller that keeps the texts of the keys it has passed unchanged.
Next == Insert \/ BulkInsert \/ RehashStep \/ RehashDone \/ Get \/ Return

Spec == Init /\ [][Next]_vars

\* A caller that reuses its key buffer (and loads no bulk keys).
NextAlias == Insert \/ Get \/ Return \/ Overwrite

SpecAlias == Init /\ [][NextAlias]_vars

\* ------------------------------------------------------------------------
\* The load-factor check on large tables.  Only the record of the table is
\* kept, capacity and num_elems: the buckets and chains of a table of
\* millions of nodes are not represented (hash.table is empty).
\* ------------------------------------------------------------------------
\* Capacities 2^4 .. 2^MaxLogCapacity.
MaxLogCapacity == 23

\* num_elems within LoadWindow of 5 * capacity.
LoadWindow == 3

Header(capacity, num_elems) ==
  [table |-> <<>>, capacity |-> capacity, num_elems |-> num_elems]

\* A count num_elems a table of this capacity can hold: the inserts that
\* took it from 5 * capacity up to num_elems were all made without a
\* resize.
Holds(capacity, num_elems) ==
  \A n \in (LOAD_FACTOR_THR * capacity)..(num_elems - 1) :
    ~OverThreshold(Header(capacity, n))

InitLoad ==
  /\ \E k \in 4..MaxLogCapacity, d \in (0 - LoadWindow)..LoadWindow :
       /\ Holds(2 ^ k, LOAD_FACTOR_THR * (2 ^ k) + d)
       /\ hash = Header(2 ^ k, LOAD_FACTOR_THR * (2 ^ k) + d)
       /\ entry = hash
  /\ stack = <<>>
  /\ mem = <<97>>
  /\ loaded = 0
  /\ call = NoCall
  /\ heap = <<>>
  /\ run = NotStarted
  /\ fault = "none"

\* hash_insert of a key that is not in the table, with a real value, seen
\* on the record: the load-factor check, the doubling by _hash_resize
\* (which ends with the num_elems it began with), num_elems++.
HeaderInsert ==
  /\ Between
  /\ hash.num_elems >= LOAD_FACTOR_THR * hash.capacity - LoadWindow
  /\ entry' = hash
  /\ hash' = Header(IF OverThreshold(hash) THEN hash.capacity * 2 ELSE hash.capacity,
                    hash.num_elems + 1)
  /\ call' = Call("insert", LitA, 1, FALSE, OverThreshold(hash))
  /\ UNCHANGED <<stack, mem, loaded>>
  /\ UNCHANGED mvars

NextLoad == HeaderInsert \/ Return

SpecLoad == InitLoad /\ [][NextLoad]_vars

\* ------------------------------------------------------------------------
\* The memory-level model: the table as malloc'ed blocks.  heap[a] is the
\* block at address a; malloc returns a new address each time, free marks
\* the block released and leaves its bytes.  run is
\*   pc:        "start" before hash_create, "idle" between calls, "resize"
\*              inside _hash_resize, "free" inside hash_free, "end" after it;
\*   h:         the caller's struct hash*;
\*   frames:    the _hash_resize activations in progress, outermost first;
\*   i, cur:    the loop variables of hash_free;
\*   old_nodes, old_table: the nodes and the bucket array the table had
\*              when its last outermost _hash_resize began.
\* fault is "none", or "abort" (a failed assert), "segv" and "null-linked"
\* (the two outcomes of storing through a NULL malloc result: a trap, or
\* stores that go through), "double-free", "use-after-free".
\* ------------------------------------------------------------------------
HashCell(table, capacity, num_elems) ==
  [kind |-> "hash", live |-> TRUE, table |-> table, capacity |-> capacity,
   num_elems |-> num_elems]

TableCell(capacity) ==
  [kind |-> "table", live |-> TRUE, slots |-> [i \in 0..(capacity - 1) |-> NULL]]

NodeCell(key, value, next) ==
  [kind |-> "node", live |-> TRUE, key |-> key, value |-> value, next |-> next]

\* A block of the caller's, which the values it stores point to.
ValueCell == [kind |-> "value", live |-> TRUE]

\* The address the next successful malloc returns.
Fresh(hp) == Len(hp) + 1

\* What the malloc of a node can do to the hash_insert that calls it:
\* succeed; return NULL, the store cur->key = key trapping; return NULL,
\* the stores going through and NULL being linked as the chain head.
NodeMalloc == {"ok", "trap", "notrap"}

\* free(a)
MFree(ms, a) ==
  IF ms.fault # "none" THEN ms
  ELSE IF ~ms.heap[a].live THEN [ms EXCEPT !.fault = "double-free"]
  ELSE [ms EXCEPT !.heap[a].live = FALSE]

\* Mutant: the node is freed before its next field is read.
MFreeThenNext(ms, tmp) ==
  LET after == MFree(ms, tmp)
  IN  IF after.fault # "none"
      THEN [heap |-> after.heap, fault |-> after.fault, next |-> NULL]
      ELSE IF ~after.heap[tmp].live
      THEN [heap |-> after.heap, fault |-> "use-after-free", next |-> NULL]
      ELSE [heap |-> after.heap, fault |-> after.fault, next |-> after.heap[tmp].next]

\* cur = cur->next; free(tmp)  (next = cur->next; free(cur) in hash_free)
MNextAndFree(ms, tmp) ==
  IF ms.fault # "none"
  THEN [heap |-> ms.heap, fault |-> ms.fault, next |-> NULL]
  ELSE IF ~ms.heap[tmp].live
  THEN [heap |-> ms.heap, fault |-> "use-after-free", next |-> NULL]
  ELSE LET after == MFree(ms, tmp)
       IN  [heap |-> after.heap, fault |-> after.fault, next |-> ms.heap[tmp].next]

\* _hash_table_init(hash, capacity); ok: its malloc succeeds.  The result
\* of malloc is stored in hash->table before it is asserted.
MTableInit(ms, h, capacity, ok) ==
  IF ms.fault # "none" THEN ms
  ELSE IF ~ok
  THEN [heap |-> [ms.heap EXCEPT ![h].table = NULL], fault |-> "abort"]
  ELSE [heap |-> Append([ms.heap EXCEPT ![h].table = Fresh(ms.heap),
                                        ![h].capacity = capacity,
                                        ![h].num_elems = 0],
                        TableCell(capacity)),
        fault |-> ms.fault]

RECURSIVE Search(_, _, _, _)
\* The chain search of hash_insert from node cur: the node found (NULL if
\* none), the node before it, and whether the search read a freed node.
Search(hp, cur, prev, text) ==
  IF cur = NULL THEN [cur |-> NULL, prev |-> prev, bad |-> FALSE]
  ELSE IF ~hp[cur].live THEN [cur |-> cur, prev |-> prev, bad |-> TRUE]
  ELSE IF Str(<<>>, hp[cur].key) = text THEN [cur |-> cur, prev |-> prev, bad |-> FALSE]
  ELSE Search(hp, hp[cur].next, cur, text)

\* hash_insert after its load-factor check, on the blocks; got: what the
\* malloc of the node does, if the call comes to it.
MChainOp(ms, h, key, value, got) ==
  LET hp == ms.heap
      tbl == hp[h].table
      idx == BucketOf(_djb_hash(Str(<<>>, key)), hp[h].capacity)
      s == Search(hp, hp[tbl].slots[idx], NULL, Str(<<>>, key))
  IN  IF ms.fault # "none" THEN ms
      ELSE IF s.bad THEN [ms EXCEPT !.fault = "use-after-free"]
      ELSE IF s.cur # NULL
      THEN IF value # NULL
           THEN [ms EXCEPT !.heap[s.cur].value = value]
           ELSE MFree([ms EXCEPT !.heap = IF s.prev # NULL
                                          THEN [hp EXCEPT ![s.prev].next = hp[s.cur].next,
                                                          ![h].num_elems = @ - 1]
                                          ELSE [hp EXCEPT ![tbl].slots[idx] = hp[s.cur].next,
                                                          ![h].num_elems = @ - 1]],
                      s.cur)
      ELSE IF value # NULL
      THEN IF got = "ok"
           THEN [ms EXCEPT !.heap = Append([hp EXCEPT ![tbl].slots[idx] = Fresh(hp),
                                                      ![h].num_elems = @ + 1],
                                           NodeCell(key, value, hp[tbl].slots[idx]))]
           ELSE IF got = "trap"
           THEN [ms EXCEPT !.fault = "segv"]
           ELSE [heap |-> [hp EXCEPT ![tbl].slots[idx] = NULL, ![h].num_elems = @ + 1],
                 fault |-> "null-linked"]
      ELSE ms

RECURSIVE Seek(_, _, _, _, _)
\* Where the loops of _hash_resize and hash_free come to their next node:
\* the bucket index and the node, NULL when the loops are over.
Seek(hp, tbl, capacity, i, cur) ==
  IF cur # NULL THEN [i |-> i, cur |-> cur]
  ELSE IF i + 1 >= capacity THEN [i |-> capacity, cur |-> NULL]
  ELSE Seek(hp, tbl, capacity, i + 1, hp[tbl].slots[i + 1])

RECURSIVE ChainAddrs(_, _)
\* The addresses of the nodes of the chain that starts at address a.
ChainAddrs(hp, a) ==
  IF a = NULL THEN <<>> ELSE <<a>> \o ChainAddrs(hp, hp[a].next)

RECURSIVE LinkedFrom(_, _, _, _)
LinkedFrom(hp, tbl, capacity, i) ==
  IF i >= capacity THEN <<>>
  ELSE ChainAddrs(hp, hp[tbl].slots[i]) \o LinkedFrom(hp, tbl, capacity, i + 1)

\* The addresses of the nodes linked in the chains of the table *h, chain
\* after chain.
Linked(hp, h) == LinkedFrom(hp, hp[h].table, hp[h].capacity, 0)

\* The activation of _hash_resize at its start.
MFrame(hp, h, key, value) ==
  [old_table |-> hp[h].table, old_capacity |-> hp[h].capacity, i |-> 0,
   cur |-> hp[hp[h].table].slots[0], key |-> key, value |-> value]

\* The innermost activation of _hash_resize, and where its loops stand.
MTop == run.frames[Len(run.frames)]

MPos == Seek(heap, MTop.old_table, MTop.old_capacity, MTop.i, MTop.cur)

\* The keys the caller of the memory-level model removes.
RemovePtrs == {BulkPtr(0), BulkPtr(16)}

\* The caller's values: pointers to its own blocks.
ValuePtrs(hp) == {a \in 1..Len(hp) : hp[a].kind = "value"}

InitHeap ==
  /\ hash = hash_create
  /\ stack = <<>>
  /\ mem = <<97>>
  /\ loaded = 0
  /\ call = NoCall
  /\ entry = hash_create
  /\ heap = <<ValueCell>>
  /\ run = NotStarted
  /\ fault = "none"

\* hash_create: malloc of the record, assert, _hash_table_init.
HCreate ==
  /\ run.pc = "start"
  /\ fault = "none"
  /\ \E okHash \in BOOLEAN, okTable \in BOOLEAN :
       IF ~okHash
       THEN /\ fault' = "abort"
            /\ UNCHANGED <<heap, run>>
       ELSE LET h == Fresh(heap)
                ms == MTableInit([heap |-> Append(heap, HashCell(NULL, 0, 0)),
                                  fault |-> "none"],
                                 h, INITIAL_CAPACITY, okTable)
            IN  /\ heap' = ms.heap
                /\ fault' = ms.fault
                /\ run' = IF ms.fault = "none"
                          THEN [run EXCEPT !.pc = "idle", !.h = h]
                          ELSE run
  /\ call' = Call("create", Scratch, NULL, FALSE, FALSE)
  /\ UNCHANGED <<hash, stack, mem, loaded, entry>>

\* The caller calls hash_insert(h, key, value): the load-factor check, then
\* either the whole chain operation or the entry into _hash_resize.
MInsertCall(key, value) ==
  /\ run.pc = "idle"
  /\ fault = "none"
  /\ call' = Call("insert", key, value, FALSE, OverThreshold(heap[run.h]))
  /\ IF OverThreshold(heap[run.h])
     THEN \E ok \in BOOLEAN :
            LET ms == MTableInit([heap |-> heap, fault |-> fault], run.h,
                                 heap[run.h].capacity * 2, ok)
            IN  /\ heap' = ms.heap
                /\ fault' = ms.fault
                /\ run' = IF ms.fault = "none"
                          THEN [run EXCEPT !.pc = "resize",
                                           !.frames = <<MFrame(heap, run.h, key, value)>>,
                                           !.old_nodes = {Linked(heap, run.h)[n] :
                                                            n \in 1..Len(Linked(heap, run.h))},
                                           !.old_table = heap[run.h].table]
                          ELSE run
     ELSE \E got \in NodeMalloc :
            LET ms == MChainOp([heap |-> heap, fault |-> fault], run.h, key, value, got)
            IN  /\ heap' = ms.heap
                /\ fault' = ms.fault
                /\ run' = run
  /\ UNCHANGED <<hash, stack, mem, entry>>

\* The caller inserts its next bulk key, with a pointer to its data.
HBulkInsert ==
  /\ loaded < MaxBulk
  /\ \E v \in ValuePtrs(heap) : MInsertCall(BulkPtr(loaded), v)
  /\ loaded' = loaded + 1

\* The caller removes one of the keys it has inserted.
HRemove ==
  /\ \E key \in RemovePtrs :
       /\ \E n \in 0..(loaded - 1) : key = BulkPtr(n)
       /\ MInsertCall(key, NULL)
  /\ UNCHANGED loaded

\* Mutant: the inner loop of _hash_resize leaves out free(tmp).
HRehashStepNoFree ==
  /\ run.pc = "resize"
  /\ fault = "none"
  /\ MPos.cur # NULL
  /\ LET f == [MTop EXCEPT !.i = MPos.i, !.cur = MPos.cur]
         below == SubSeq(run.frames, 1, Len(run.frames) - 1)
         node == heap[f.cur]
     IN  \E got \in NodeMalloc :
           LET ms == MChainOp([heap |-> heap, fault |-> fault],
                              run.h, node.key, node.value, got)
           IN  /\ heap' = ms.heap
               /\ fault' = ms.fault
               /\ run' = IF ms.fault = "none"
                         THEN [run EXCEPT !.frames = below \o <<[f EXCEPT !.cur = node.next]>>]
                         ELSE run
  /\ UNCHANGED <<hash, stack, mem, loaded, call, entry>>

\* One turn of the inner loop of _hash_resize: tmp = cur, hash_insert of
\* the node's key and value (with its own load-factor check), cur =
\* cur->next, free(tmp).
HRehashStep ==
  /\ run.pc = "resize"
  /\ fault = "none"
  /\ MPos.cur # NULL
  /\ LET f == [MTop EXCEPT !.i = MPos.i, !.cur = MPos.cur]
         below == SubSeq(run.frames, 1, Len(run.frames) - 1)
         node == heap[f.cur]
     IN  IF ~node.live
         THEN /\ fault' = "use-after-free"
              /\ UNCHANGED <<heap, run>>
         ELSE IF OverThreshold(heap[run.h])
         THEN \E ok \in BOOLEAN :
                LET ms == MTableInit([heap |-> heap, fault |-> fault], run.h,
                                     heap[run.h].capacity * 2, ok)
                IN  /\ heap' = ms.heap
                    /\ fault' = ms.fault
                    /\ run' = IF ms.fault = "none"
                              THEN [run EXCEPT !.frames =
                                      below \o <<f, MFrame(heap, run.h, node.key, node.value)>>]
                              ELSE run
         ELSE \E got \in NodeMalloc :
                LET ms == MNextAndFree(MChainOp([heap |-> heap, fault |-> fault],
                                                run.h, node.key, node.value, got),
                                       f.cur)
                IN  /\ heap' = ms.heap
                    /\ fault' = ms.fault
                    /\ run' = IF ms.fault = "none"
                              THEN [run EXCEPT !.frames = below \o <<[f EXCEPT !.cur = ms.next]>>]
                              ELSE run
  /\ UNCHANGED <<hash, stack, mem, loaded, call, entry>>

\* The loops of _hash_resize are over: free(old_table), return into the
\* hash_insert that called it, which does its chain operation and returns
\* (into the loop of the _hash_resize that called it, if one did).
HRehashDone ==
  /\ run.pc = "resize"
  /\ fault = "none"
  /\ MPos.cur = NULL
  /\ \E got \in NodeMalloc :
       LET ms == MChainOp(MFree([heap |-> heap, fault |-> fault], MTop.old_table),
                          run.h, MTop.key, MTop.value, got)
       IN  IF Len(run.frames) = 1
           THEN /\ heap' = ms.heap
                /\ fault' = ms.fault
                /\ run' = IF ms.fault = "none"
                          THEN [run EXCEPT !.pc = "idle", !.frames = <<>>]
                          ELSE run
           ELSE LET parent == run.frames[Len(run.frames) - 1]
                    ms2 == MNextAndFree(ms, parent.cur)
                IN  /\ heap' = ms2.heap
                    /\ fault' = ms2.fault
                    /\ run' = IF ms2.fault = "none"
                              THEN [run EXCEPT !.frames =
                                      SubSeq(run.frames, 1, Len(run.frames) - 2)
                                        \o <<[parent EXCEPT !.cur = ms2.next]>>]
                              ELSE run
  /\ UNCHANGED <<hash, stack, mem, loaded, call, entry>>

\* Mutant: the loop of hash_free starts at bucket 1.
HFreeCallSkipFirst ==
  /\ run.pc = "idle"
  /\ fault = "none"
  /\ run' = [run EXCEPT !.pc = "free", !.i = 1,
                        !.cur = heap[heap[run.h].table].slots[1]]
  /\ call' = Call("free", Scratch, NULL, FALSE, FALSE)
  /\ UNCHANGED <<hash, stack, mem, loaded, entry, heap, fault>>

\* The caller calls hash_free(h): the loop at bucket 0.
HFreeCall ==
  /\ run.pc = "idle"
  /\ fault = "none"
  /\ run' = [run EXCEPT !.pc = "free", !.i = 0,
                        !.cur = heap[heap[run.h].table].slots[0]]
  /\ call' = Call("free", Scratch, NULL, FALSE, FALSE)
  /\ UNCHANGED <<hash, stack, mem, loaded, entry, heap, fault>>

\* One turn of the inner loop of hash_free: next = cur->next, free(cur),
\* cur = next.
HFreeStep ==
  /\ run.pc = "free"
  /\ fault = "none"
  /\ LET p == Seek(heap, heap[run.h].table, heap[run.h].capacity, run.i, run.cur)
     IN  /\ p.cur # NULL
         /\ LET ms == MNextAndFree([heap |-> heap, fault |-> fault], p.cur)
            IN  /\ heap' = ms.heap
                /\ fault' = ms.fault
                /\ run' = [run EXCEPT !.i = p.i, !.cur = ms.next]
  /\ UNCHANGED <<hash, stack, mem, loaded, call, entry>>

\* The loops of hash_free are over: free(hash->table), free(hash).
HFreeDone ==
  /\ run.pc = "free"
  /\ fault = "none"
  /\ Seek(heap, heap[run.h].table, heap[run.h].capacity, run.i, run.cur).cur = NULL
  /\ LET ms == MFree(MFree([heap |-> heap, fault |-> fault], heap[run.h].table), run.h)
     IN  /\ heap' = ms.heap
         /\ fault' = ms.fault
  /\ run' = [run EXCEPT !.pc = "end", !.cur = NULL]
  /\ UNCHANGED <<hash, stack, mem, loaded, call, entry>>

NextHeap ==
  HCreate \/ HBulkInsert \/ HRemove \/ HRehashStep \/ HRehashDone
    \/ HFreeCall \/ HFreeStep \/ HFreeDone

SpecHeap == InitHeap /\ [][NextHeap]_vars

\* ------------------------------------------------------------------------
\* Vocabulary of the properties
\* ------------------------------------------------------------------------
\* Every key pointer of the explored caller, and a literal "b" besides.
AllPtrs == LookupPtrs \cup {BulkPtr(n) : n \in 0..(MaxBulk - 1)} \cup {Lit(<<98>>)}

RECURSIVE CountFrom(_, _)
CountFrom(h, i) ==
  IF i >= h.capacity THEN 0 ELSE Len(h.table[i]) + CountFrom(h, i + 1)

\* The number of association nodes linked in the chains of h.
NodeCount(h) == CountFrom(h, 0)

\* The key texts of the nodes linked in the chains of h.
TableTexts(h, m) ==
  UNION {{Str(m, h.table[i][j].key) : j \in 1..Len(h.table[i])} :
           i \in 0..(h.capacity - 1)}

\* The (key text, value) pairs stored in h.
Pairs(h, m) ==
  UNION {{<<Str(m, h.table[i][j].key), h.table[i][j].value>> :
            j \in 1..Len(h.table[i])} : i \in 0..(h.capacity - 1)}

\* A hash_insert call has returned to the caller, which has not gone on yet.
Returned == Idle /\ call.op = "insert"

\* C1: round trip.  When hash_insert(t, k, v) with a non-NULL v has
\* returned, hash_get(t, k) returns v, whether k was new or present and
\* whether or not the call resized the table.
C1_RoundTrip ==
  (Returned /\ call.value # NULL) => hash_get(hash, mem, call.key) = call.value

\* A hash_insert of a new key with a real value that resized has returned.
C1_Witness ==
  Returned /\ call.value # NULL /\ ~call.hit /\ call.resized

\* C2 as claimed: when a hash_insert call has returned,
\* num_elems / capacity <= 5.0.
C2_LoadFactorBound ==
  Returned => hash.num_elems <= 5 * hash.capacity

\* C2 as amended: when a hash_insert call has returned, the table with one
\* node fewer is not over the threshold as hash_load_factor computes it
\* (the call made its check before it added its node); for a count that
\* float represents exactly, up to 2^24, that is num_elems <= 5 * capacity + 1.
C2_LoadFactorBoundPlusOne ==
  Returned
    => /\ hash.num_elems > 0 => ~OverThreshold([hash EXCEPT !.num_elems = @ - 1])
       /\ hash.num_elems <= FloatSignificand => hash.num_elems <= 5 * hash.capacity + 1

\* An insert that found the load factor at exactly 5.0 has added its node.
C2_Witness ==
  Returned /\ ~call.resized /\ ~call.hit /\ hash.num_elems = 5 * hash.capacity + 1

\* The bucket array of h1 is as long as that of h2.
SameSize(h1, h2) ==
  h1.capacity = h2.capacity /\ DOMAIN h1.table = DOMAIN h2.table

\* A call of hash_insert(t, k, NULL) has returned.
Removed == Returned /\ call.value = NULL

\* C3 as claimed: hash_get(t, k) and hash_insert(t, k, NULL) leave capacity
\* and the length of the bucket array as they were at the call.
C3_NoGrowthOnGetOrRemove ==
  (call.op = "get" \/ Removed) => SameSize(hash, entry)

\* C3 as amended: hash_get leaves capacity and the length of the bucket
\* array unchanged; hash_insert(t, k, NULL) leaves them unchanged when the
\* load factor hash_load_factor computes at the call is <= 5.0 and doubles
\* them when it is above 5.0; whenever a call returns with another
\* capacity than it was entered with, the call is a hash_insert entered
\* with num_elems above 5 * capacity.
C3_GrowthOnlyOverThreshold ==
  /\ call.op = "get" => SameSize(hash, entry)
  /\ (Removed /\ ~OverThreshold(entry)) => SameSize(hash, entry)
  /\ (Removed /\ OverThreshold(entry))
       => /\ hash.capacity = 2 * entry.capacity
          /\ DOMAIN hash.table = 0..(2 * entry.capacity - 1)
  /\ (Idle /\ hash.capacity # entry.capacity)
       => (call.op = "insert" /\ entry.num_elems > 5 * entry.capacity)

\* A removal that resized the table has returned.
C3_Witness ==
  Removed /\ call.resized /\ hash.capacity = 2 * INITIAL_CAPACITY

\* The loop of the outermost _hash_resize has visited every old node.
Rehashed == Len(stack) = 1 /\ Pending(Top) = {}

\* The texts of the keys hash_get finds in h.
Retrievable(h, m) == {Str(m, p) : p \in {q \in AllPtrs : hash_get(h, m, q) # NULL}}

\* C4: growth preserves data.  When _hash_resize has rehashed every old
\* node, the table holds the (key, value) pairs and the num_elems it held
\* when the resize began; and when a hash_insert has returned every bulk
\* key inserted so far is retrievable with the value it was given, and
\* num_elems is the number of retrievable keys.
C4_GrowthPreservesData ==
  /\ Rehashed => /\ Pairs(hash, mem) = Pairs(entry, mem)
                 /\ hash.num_elems = entry.num_elems
  /\ Returned
       => /\ \A n \in 0..(loaded - 1) : hash_get(hash, mem, BulkPtr(n)) = 1
          /\ hash.num_elems = Cardinality(Retrievable(hash, mem))

\* A resize of a table of more than 80 nodes has rehashed them all.
C4_Witness ==
  Rehashed /\ entry.num_elems > 5 * INITIAL_CAPACITY /\ hash.num_elems = entry.num_elems

\* C5: between public operations num_elems is the number of association
\* nodes linked in the bucket chains.
C5_CountMatchesNodes ==
  Idle => hash.num_elems = NodeCount(hash)

\* A removal of a present key has returned from a table that was resized.
C5_Witness ==
  Removed /\ call.hit /\ hash.capacity > INITIAL_CAPACITY /\ hash.num_elems > 0

\* C6: in every state, the intermediate states of a rehash included, no
\* two nodes of the table hold equal key texts: the nodes hold as many
\* distinct key texts as there are nodes.
C6_KeysUnique ==
  Cardinality(TableTexts(hash, mem)) = NodeCount(hash)

\* A rehash is half way: nodes in the new table, nodes still to move.
C6_Witness ==
  ~Idle /\ Pending(Top) # {} /\ hash.num_elems >= 40

\* C7 as claimed: the table holds its own copy of each key text, so when
\* the caller overwrites the buffer it passed as a key, hash_get of every
\* literal key returns what it returned before, and the key texts of the
\* nodes are what they were.
C7_KeyIndependence ==
  [][(mem' # mem)
       => /\ \A p \in AllPtrs \ {Scratch} :
               hash_get(hash', mem', p) = hash_get(hash, mem, p)
          /\ TableTexts(hash', mem') = TableTexts(hash, mem)]_vars

\* hash_get of every key whose text differs from that of k returns what it
\* returned before the call.
OthersKept(k) ==
  \A p \in AllPtrs :
    ~KeyEq(mem, p, k) => hash_get(hash, mem, p) = hash_get(entry, mem, p)

\* C8: delete.  hash_insert(t, k, NULL) with k present: afterwards
\* hash_get(t, k) returns NULL, num_elems is one less than before the call,
\* and every other key maps to its previous value.
C8_Delete ==
  (Removed /\ Found(entry, mem, call.key))
    => /\ hash_get(hash, mem, call.key) = NULL
       /\ hash.num_elems = entry.num_elems - 1
       /\ OthersKept(call.key)

\* A removal of a present key that resized the table has returned.
C8_Witness ==
  Removed /\ call.hit /\ call.resized

\* C9: overwrite.  hash_insert(t, k, v2) with k present and v2 not NULL:
\* afterwards hash_get(t, k) returns v2, num_elems is what it was before
\* the call, and every other key maps to its previous value.
C9_Overwrite ==
  (Returned /\ call.value # NULL /\ Found(entry, mem, call.key))
    => /\ hash_get(hash, mem, call.key) = call.value
       /\ hash.num_elems = entry.num_elems
       /\ OthersKept(call.key)

\* An update of a present key that resized the table has returned.
C9_Witness ==
  Returned /\ call.value # NULL /\ call.hit /\ call.resized

\* C10: delete-miss.  hash_insert(t, k, NULL) with k not present leaves
\* num_elems and what hash_get returns for every key unchanged.
C10_DeleteMiss ==
  (Removed /\ ~Found(entry, mem, call.key))
    => /\ hash.num_elems = entry.num_elems
       /\ \A p \in AllPtrs : hash_get(hash, mem, p) = hash_get(entry, mem, p)

\* A removal of an absent key that resized the table has returned.
C10_Witness ==
  Removed /\ ~call.hit /\ call.resized

\* C11: lookup is read-only.  When hash_get has returned, capacity,
\* num_elems, the bucket array and every chain (order, keys, values of its
\* nodes) are what they were when it was called.
C11_LookupReadOnly ==
  call.op = "get" => hash = entry

\* hash_get has found a key behind the head of its chain.
C11_Witness ==
  /\ call.op = "get"
  /\ call.hit
  /\ Find(hash.table[Idx(hash, mem, call.key)], mem, call.key) > 1

RECURSIVE IsDoubling(_, _)
\* n is c, 2c, 4c, ...
IsDoubling(n, c) ==
  IF n <= c THEN n = c ELSE n % 2 = 0 /\ IsDoubling(n \div 2, c)

\* C12: capacity invariant.  hash_create returns a table of capacity 16 and
\* num_elems 0; afterwards capacity is always a power of two >= 16 (16
\* doubled some number of times), and no step makes it smaller.
C12_CapacityInvariant ==
  /\ hash.capacity = 16 /\ hash.num_elems = 0
  /\ [](IsDoubling(hash.capacity, 16) /\ DOMAIN hash.table = 0..(hash.capacity - 1))
  /\ [][hash'.capacity >= hash.capacity]_vars

\* The caller is between two calls on a table that has grown.
C12_Witness ==
  Between /\ hash.capacity = 2 * INITIAL_CAPACITY /\ hash.num_elems > 0

\* C13: resize trigger and amount.  A hash_insert called with
\* num_elems / capacity > 5.0 returns with twice the capacity it was called
\* with, one called with num_elems / capacity <= 5.0 returns with the same
\* capacity, and while a call is in progress the table has grown at most
\* once.
C13_ResizeTrigger ==
  /\ Returned
       => hash.capacity = IF entry.num_elems > 5 * entry.capacity
                          THEN 2 * entry.capacity
                          ELSE entry.capacity
  /\ ~Idle => (Len(stack) = 1 /\ hash.capacity = 2 * entry.capacity)

\* C17: no nested resize.  While _hash_resize re-inserts the old nodes no
\* second _hash_resize is ever active, the load-factor check of the next
\* hash_insert it makes is false, and capacity is twice what it was when
\* the resize began.
C17_NoNestedResize ==
  /\ Len(stack) <= 1
  /\ (~Idle /\ Pending(Top) # {}) => ~OverThreshold(hash)
  /\ ~Idle => hash.capacity = 2 * Top.old_capacity

\* The rehash is about to re-insert the last old node.
C17_Witness ==
  /\ ~Idle
  /\ Cardinality(Pending(Top)) = 1
  /\ Len(Top.old_table[NextBucket(Top)]) = 1
  /\ hash.num_elems >= 5 * INITIAL_CAPACITY

\* C18: placement.  Every node linked in the chain of bucket i has a key
\* whose hash modulo the current capacity is i: between public operations
\* and inside a rehash, for the nodes the rehash moved and for the node
\* added by the insert that triggered it.
C18_Placement ==
  \A i \in 0..(hash.capacity - 1) :
    \A j \in 1..Len(hash.table[i]) :
      BucketOf(_djb_hash(Str(mem, hash.table[i][j].key)), hash.capacity) = i

\* An insert of a new key that resized has returned, and the key's bucket
\* under the new capacity is not its bucket under the old one.
C18_Witness ==
  /\ Returned /\ call.resized /\ ~call.hit /\ call.value # NULL
  /\ BucketOf(_djb_hash(Str(mem, call.key)), hash.capacity)
       # BucketOf(_djb_hash(Str(mem, call.key)), entry.capacity)

\* The values of the nodes in the bucket array t.
ValuesIn(t) == UNION {{t[i][j].value : j \in 1..Len(t[i])} : i \in DOMAIN t}

\* C19: no node stores NULL.  Every linked node, and every old node a
\* rehash has still to re-insert, has a non-NULL value; so when hash_get(t, k)
\* has returned, it has returned NULL exactly when the chain search finds
\* no node with key k.
C19_NoNullValue ==
  /\ NULL \notin ValuesIn(hash.table)
  /\ \A n \in 1..Len(stack) : NULL \notin ValuesIn(stack[n].old_table)
  /\ call.op = "get" => ((call.value = NULL) <=> ~Found(hash, mem, call.key))

\* hash_get has returned NULL for a key that was removed from a table that
\* still holds nodes.
C19_Witness ==
  /\ call.op = "get" /\ call.value = NULL /\ ~call.hit
  /\ hash.num_elems > 0 /\ hash.capacity > INITIAL_CAPACITY

\* The node blocks that have not been freed.
LiveNodes(hp) == {a \in 1..Len(hp) : hp[a].kind = "node" /\ hp[a].live}

\* How many times address a occurs in the sequence l.
Occurrences(l, a) == Cardinality({n \in 1..Len(l) : l[n] = a})

\* A hash_insert that ran _hash_resize has returned normally.
ResizeReturned ==
  run.pc = "idle" /\ fault = "none" /\ call.op = "insert" /\ call.resized

\* C14: resize neither leaks nor double-owns nodes.  No block is freed
\* twice and no freed node is read, in any state; and when _hash_resize
\* has returned, every node that was in the old bucket array is freed and
\* linked nowhere or is linked exactly once in the new chains, the old
\* bucket array is freed, every node reachable from the new bucket array
\* is unfreed and linked once, and every unfreed node is reachable.
C14_ResizeOwnership ==
  /\ fault \notin {"double-free", "use-after-free"}
  /\ ResizeReturned
       => LET l == Linked(heap, run.h)
          IN  /\ \A a \in run.old_nodes :
                   Occurrences(l, a) = IF heap[a].live THEN 1 ELSE 0
              /\ ~heap[run.old_table].live
              /\ heap[heap[run.h].table].live
              /\ \A n \in 1..Len(l) : heap[l[n]].live /\ Occurrences(l, l[n]) = 1
              /\ LiveNodes(heap) = {l[n] : n \in 1..Len(l)}
              /\ heap[run.h].num_elems = Len(l)

\* A _hash_resize of a table of more than 80 nodes has returned.
C14_Witness ==
  ResizeReturned /\ Cardinality(run.old_nodes) > 5 * INITIAL_CAPACITY

\* C15: teardown.  While hash_free walks the chains the bucket array and
\* the table record are not yet freed; when it has returned, every node,
\* bucket array and table record ever allocated is freed, none of them
\* twice, and the caller's value data is not.
C15_Teardown ==
  /\ fault # "double-free"
  /\ run.pc = "free" => (heap[run.h].live /\ heap[heap[run.h].table].live)
  /\ run.pc = "end"
       => /\ fault = "none"
          /\ \A a \in 1..Len(heap) : heap[a].live <=> heap[a].kind = "value"

\* hash_free has returned on a table that had grown and lost a node.
C15_Witness ==
  /\ run.pc = "end"
  /\ heap[run.h].capacity > INITIAL_CAPACITY
  /\ heap[run.h].num_elems < loaded

\* C16 as claimed: allocation failure is fail-fast.  The program never
\* stores through, or links, a NULL allocation result: a failed malloc
\* ends in the abort of an assert.
C16_FailFast ==
  fault \notin {"segv", "null-linked"}

====
